---- MODULE Spec2Model ----
(***************************************************************************)
(* Model of the MCP web bridge (src/mcp_web_server.py): the connection     *)
(* lifecycle of MCPWebServer (connect_to_stdio_server,                     *)
(* connect_to_http_server, cleanup), the tool-host client                  *)
(* (send_http_mcp_request, get_available_tools, call_tool) and the         *)
(* orchestration loop process_query behind chat_endpoint.                  *)
(*                                                                         *)
(* A coroutine runs atomically between two suspension points.  The         *)
(* suspension points of process_query are the two awaits that reach the    *)
(* tool host (get_available_tools, call_tool); the LLM call                *)
(* (anthropic.messages.create) is synchronous and does not suspend.        *)
(*                                                                         *)
(* The tool host, the LLM and the libraries are the environment: what they *)
(* answer is drawn from small sets with \E.  JSON-RPC responses follow the *)
(* envelope of MCPResponse: the error member is null or a non-empty        *)
(* object, so "has an error field" and Python truthiness agree.            *)
(***************************************************************************)
EXTENDS Integers, Sequences, FiniteSets, TLC

(***************************************************************************)
(* Bounds                                                                  *)
(***************************************************************************)
\* most content blocks in one LLM response
MaxBlocks == 2
\* most content blocks the LLM emits over all responses of one turn
MaxTurnBlocks == 3
\* most contexts held by exit_stack (two per completed stdio connect)
MaxStack == 4
\* most requests the tool host is followed through
MaxRequests == 2

Tasks == {1}
\* two chat requests served at the same time
ConcTasks == {1, 2}

Min(a, b) == IF a < b THEN a ELSE b

(***************************************************************************)
(* Strings.  Script paths are sequences of characters so that endswith is  *)
(* computed; texts are TLA+ strings joined with \o.                        *)
(***************************************************************************)
EndsWith(s, suffix) ==
    /\ Len(s) >= Len(suffix)
    /\ SubSeq(s, Len(s) - Len(suffix) + 1, Len(s)) = suffix

DotPy == <<".", "p", "y">>
DotJs == <<".", "j", "s">>

ScriptPaths ==
    { <<"s", ".", "p", "y">>,
      <<"s", ".", "p", "y", ".", "j", "s">>,
      <<"s", ".", "p", "y", "c">>,
      <<"j", "s">>,
      <<>> }

RECURSIVE JoinFrom(_, _, _)
JoinFrom(sep, parts, i) ==
    IF i > Len(parts) THEN ""
    ELSE IF i = Len(parts) THEN parts[i]
    ELSE parts[i] \o sep \o JoinFrom(sep, parts, i + 1)

\* "\n".join(parts)
Join(sep, parts) == JoinFrom(sep, parts, 1)

(***************************************************************************)
(* State                                                                   *)
(***************************************************************************)
VARIABLES
    use_http_mcp,       \* MCPWebServer.use_http_mcp, fixed at construction
    server_connected,   \* MCPWebServer.server_connected
    session,            \* MCPWebServer.session: "none" | "open" | "closed"
    exit_stack,         \* MCPWebServer.exit_stack: contexts entered, in order
    http_client,        \* MCPWebServer.http_client: "none" | "open" | "closed"
    lastOp,             \* the last lifecycle call and what it returned
    frames,             \* one process_query coroutine frame per task
    host                \* the ChargeKeepHTTPServer instance and its exchanges

bridge == <<use_http_mcp, server_connected, session, exit_stack, http_client>>
vars == <<use_http_mcp, server_connected, session, exit_stack, http_client,
          lastOp, frames, host>>

\* lastOp: op is the lifecycle call made last, repeated whether it is a
\* cleanup that directly follows a cleanup, prev_connected the flag before a
\* cleanup; ret is what it returned, raised whether it raised to its caller; for
\* connect_to_stdio_server path, command, spawned and steps (awaited steps
\* completed); for connect_to_http_server wire, what the exchange ended in.
NoOp ==
    [op |-> "none", repeated |-> FALSE, prev_connected |-> FALSE, ret |-> FALSE, raised |-> FALSE, path |-> <<>>,
     command |-> "none", spawned |-> FALSE, steps |-> 0, wire |-> "none"]

Op(name) ==
    [NoOp EXCEPT !.op = name,
                 !.repeated = (name = "cleanup" /\ lastOp.op = "cleanup"),
                 !.prev_connected = (name = "cleanup" /\ server_connected)]


\* The connect calls are made while no chat request is being served (main()
\* connects before it starts the web server).
NoTurnInProgress == \A t \in DOMAIN frames : frames[t].pc = "idle"

(***************************************************************************)
(* Python call outcomes: a call returns a value or raises.                 *)
(***************************************************************************)
Ret(v) == [raised |-> FALSE, exc |-> "", value |-> v]
Raise(e) == [raised |-> TRUE, exc |-> e, value |-> "none"]

(***************************************************************************)
(* HTTP transport.  A wire outcome is what one POST ends in: no response   *)
(* (connection failure, 30 s timeout), a non-success status, or a JSON     *)
(* body.                                                                   *)
(***************************************************************************)
WireKinds == {"no_response", "bad_status", "json"}

\* self.http_client.post(...) on a client that is None or already closed
\* raises before anything is sent
http_post_raises(client) == client # "open"

\* send_http_mcp_request: post, raise_for_status, json
send_http_mcp_request(wire) ==
    IF wire.kind = "no_response" THEN Raise("RequestError")
    ELSE IF wire.kind = "bad_status" THEN Raise("HTTPStatusError")
    ELSE Ret(wire.body)

\* an error member that is never looked at
HasError_Ignored(body) == FALSE

\* response.get("error"): truthiness of the error member
HasError(body) == body.error # "null"

InitializeBodies == { [error |-> "null"], [error |-> "obj"] }
InitializeWires ==
    { [kind |-> k, body |-> [error |-> "null"]] : k \in {"no_response", "bad_status"} }
    \cup { [kind |-> "json", body |-> b] : b \in InitializeBodies }

(***************************************************************************)
(* connect_to_stdio_server.  failAt names the first awaited step that      *)
(* raises: entering stdio_client (spawn), entering ClientSession,          *)
(* session.initialize(), session.list_tools(); "none" when all succeed.    *)
(***************************************************************************)
StdioSteps == <<"spawn", "session", "initialize", "list_tools">>
StdioFailures == {"none", "spawn", "session", "initialize", "list_tools"}

\* number of awaited steps completed before the first failure
StepsDone(failAt) ==
    IF failAt = "none" THEN 4
    ELSE (CHOOSE i \in 1..4 : StdioSteps[i] = failAt) - 1

\* the two interpreters exchanged
StdioCommand_Swapped(is_python) == IF is_python THEN "node" ELSE "python"

\* command = "python" if is_python else "node"
StdioCommand(is_python) == IF is_python THEN "python" ELSE "node"

\* not (is_python or is_js) raises ValueError
ScriptValid(path) == EndsWith(path, DotPy) \/ EndsWith(path, DotJs)

connect_to_stdio_server(path) ==
    /\ NoTurnInProgress
    /\ Len(exit_stack) + 2 <= MaxStack
    /\ LET is_python == EndsWith(path, DotPy)
           command == StdioCommand(is_python)
       IN IF ~ScriptValid(path)
          THEN /\ server_connected' = FALSE
               /\ lastOp' = [Op("connect_stdio") EXCEPT !.path = path]
               /\ UNCHANGED <<session, exit_stack>>
          ELSE \E failAt \in StdioFailures :
               LET done == StepsDone(failAt)
                   s1 == IF done >= 1
                         THEN Append(exit_stack, "stdio_client")
                         ELSE exit_stack
                   s2 == IF done >= 2
                         THEN Append(s1, "ClientSession")
                         ELSE s1
               IN /\ exit_stack' = s2
                  /\ session' = IF done >= 2 THEN "open" ELSE session
                  /\ server_connected' = (failAt = "none")
                  /\ lastOp' = [Op("connect_stdio") EXCEPT !.path = path,
                                            !.command = command,
                                            !.spawned = (done >= 1),
                                            !.steps = done,
                                            !.ret = (failAt = "none")]
    /\ UNCHANGED <<use_http_mcp, http_client, frames, host>>

(***************************************************************************)
(* connect_to_http_server: one initialize exchange.                        *)
(***************************************************************************)
connect_to_http_server ==
    /\ NoTurnInProgress
    /\ \E wire \in InitializeWires :
          LET response == IF http_post_raises(http_client)
                          THEN Raise(IF http_client = "none" THEN "AttributeError"
                                                              ELSE "RuntimeError")
                          ELSE send_http_mcp_request(wire)
              failed == response.raised \/ HasError(response.value)
          IN /\ server_connected' = ~failed
             /\ lastOp' = [Op("connect_http") EXCEPT
                              !.ret = ~failed,
                              !.steps = IF http_post_raises(http_client) THEN 0 ELSE 1,
                              !.wire = IF response.raised THEN response.exc
                                       ELSE IF wire.body.error = "obj" THEN "error_field"
                                       ELSE "ok"]
    /\ UNCHANGED <<use_http_mcp, session, exit_stack, http_client, frames, host>>

(***************************************************************************)
(* cleanup: exit_stack.aclose() leaves every entered context (closing the  *)
(* session and the subprocess), the HTTP client is closed when there is    *)
(* one, and the flag is cleared.                                           *)
(***************************************************************************)
\* AsyncExitStack.aclose(): every context is exited, the stack is empty after
ExitStackAclose(stack) == <<>>

\* a client that cleanup leaves open
HttpClientAclose_LeftOpen(client) == Ret(client)

\* aclose() called without the "if self.http_client" guard
HttpClientAclose_Unguarded(client) ==
    IF client = "none" THEN Raise("AttributeError") ELSE Ret("closed")

\* if self.http_client: await self.http_client.aclose()
\* (closing a client that is already closed is a no-op)
HttpClientAclose(client) == IF client = "none" THEN Ret("none") ELSE Ret("closed")

cleanup ==
    LET closed == HttpClientAclose(http_client)
    IN /\ exit_stack' = ExitStackAclose(exit_stack)
       /\ session' = IF session = "open" THEN "closed" ELSE session
       /\ IF closed.raised
          THEN /\ UNCHANGED <<http_client, server_connected>>
               /\ lastOp' = [Op("cleanup") EXCEPT !.raised = TRUE]
          ELSE /\ http_client' = closed.value
               /\ server_connected' = FALSE
               /\ lastOp' = Op("cleanup")
       /\ UNCHANGED <<use_http_mcp, frames, host>>


(***************************************************************************)
(* Content blocks and conversation messages.  Every item has the same      *)
(* fields; the ones a type does not use are "".  A dict of tool arguments  *)
(* is represented by its Python repr, the form the f-string prints.        *)
(***************************************************************************)
Item(type, text, id, name, input, tool_use_id, content) ==
    [type |-> type, text |-> text, id |-> id, name |-> name, input |-> input,
     tool_use_id |-> tool_use_id, content |-> content]

TextBlock(t) == Item("text", t, "", "", "", "", "")
ToolUseBlock(id, name, input) == Item("tool_use", "", id, name, input, "", "")
\* a tool result that does not carry the id of the tool use it answers
ToolResultItem_NoId(id, result) == Item("tool_result", "", "", "", "", "", result)

ToolResultItem(id, result) == Item("tool_result", "", "", "", "", id, result)

Message(role, content) == [role |-> role, content |-> content]

Texts == {"t1", "t2"}
ToolUses ==
    { ToolUseBlock("toolu_1", "get_contact_details", "{'contact_id': '42'}"),
      ToolUseBlock("toolu_2", "get_contact_details", "{}") }
ContentBlocks == { TextBlock(t) : t \in Texts } \cup ToolUses

\* the responses the LLM can give with at most n content blocks
LLMResponses(n) == UNION { [1..k -> ContentBlocks] : k \in 0..n }

Query == "hello"
\* the message of the request task t serves: two requests served at once
\* carry different messages
QueryOf(t) == IF t = 1 THEN Query ELSE "hello again"

(***************************************************************************)
(* Tool-host answers.                                                      *)
(***************************************************************************)
WireTool ==
    [name |-> "get_contact_details",
     description |-> "Get ChargeKeep contact details by contact ID.",
     inputSchema |-> "schema"]
WireToolLists == { <<>>, <<WireTool>> }

\* bodies of a tools/list response: {error, result: {tools: [...]}} with
\* result absent, null or a dict, and tools absent or a list
ListBodies ==
    { [error |-> "obj", result |-> [kind |-> "null", tools_present |-> FALSE, tools |-> <<>>]] }
    \cup { [error |-> "null", result |-> [kind |-> k, tools_present |-> FALSE, tools |-> <<>>]]
             : k \in {"absent", "null", "dict"} }
    \cup { [error |-> "null", result |-> [kind |-> "dict", tools_present |-> TRUE, tools |-> ts]]
             : ts \in WireToolLists }

ResultText == "{\"id\": \"42\"}"

\* bodies of a tools/call response: {error, result: {content: [{text}]}}
ContentItems ==
    { [has_text |-> FALSE, text |-> ""], [has_text |-> TRUE, text |-> ResultText] }
CallResults ==
    { [kind |-> k, content_present |-> FALSE, content |-> <<>>] : k \in {"absent", "null", "dict"} }
    \cup { [kind |-> "dict", content_present |-> TRUE, content |-> <<>>] }
    \cup { [kind |-> "dict", content_present |-> TRUE, content |-> <<i>>] : i \in ContentItems }
CallBodies ==
    { [error |-> "obj", result |-> [kind |-> "null", content_present |-> FALSE, content |-> <<>>]] }
    \cup { [error |-> "null", result |-> r] : r \in CallResults }

HttpWires(bodies) ==
    { [kind |-> k, body |-> CHOOSE b \in bodies : b.error = "obj"]
        : k \in {"no_response", "bad_status"} }
    \cup { [kind |-> "json", body |-> b] : b \in bodies }

\* what session.list_tools() / session.call_tool() end in on the stdio session
StdioListWires ==
    { [kind |-> "raise", tools |-> <<>>] }
    \cup { [kind |-> "ok", tools |-> ts] : ts \in WireToolLists }
StdioCallWires ==
    { [kind |-> "raise", content |-> <<>>] }
    \cup { [kind |-> "ok", content |-> c] : c \in { <<>>, <<ResultText>> } }

ListWires(http) == IF http THEN HttpWires(ListBodies) ELSE StdioListWires
CallWires(http) == IF http THEN HttpWires(CallBodies) ELSE StdioCallWires

(***************************************************************************)
(* Tool-host client                                                        *)
(***************************************************************************)
\* the descriptor handed to the LLM for one advertised tool
ToolDescriptor(tool) ==
    [name |-> tool.name, description |-> tool.description, input_schema |-> tool.inputSchema]

ToolDescriptors(tools) == [i \in 1..Len(tools) |-> ToolDescriptor(tools[i])]

\* an error field that is raised instead of giving the empty list
get_available_tools_Propagating(http, wire) ==
    IF http
    THEN LET response == send_http_mcp_request(wire)
         IN IF response.raised THEN response
            ELSE IF HasError(response.value) THEN Raise("ListToolsFailed")
            ELSE LET result == response.value.result
                 IN IF result.kind = "null" THEN Raise("AttributeError")
                    ELSE IF result.kind = "absent" \/ ~result.tools_present THEN Ret(<<>>)
                    ELSE Ret(ToolDescriptors(result.tools))
    ELSE IF wire.kind = "raise" THEN Raise("McpError")
         ELSE Ret(ToolDescriptors(wire.tools))

\* get_available_tools, given what the list-tools exchange ends in
get_available_tools(http, wire) ==
    IF http
    THEN LET response == send_http_mcp_request(wire)
         IN IF response.raised THEN response
            ELSE IF HasError(response.value) THEN Ret(<<>>)
            ELSE LET result == response.value.result
                 IN IF result.kind = "null" THEN Raise("AttributeError")
                    ELSE IF result.kind = "absent" \/ ~result.tools_present THEN Ret(<<>>)
                    ELSE Ret(ToolDescriptors(result.tools))
    ELSE IF wire.kind = "raise" THEN Raise("McpError")
         ELSE Ret(ToolDescriptors(wire.tools))

\* repr of one TextContent item and str() of the content list
ReprTextContent(t) == "TextContent(type='text', text='" \o t \o "')"
StrContent(content) ==
    "[" \o Join(", ", [i \in 1..Len(content) |-> ReprTextContent(content[i])]) \o "]"

\* response.get("result", {}).get("content", [{}])[0].get("text", "")
ExtractText(body) ==
    LET result == body.result
    IN IF result.kind = "null" THEN Raise("AttributeError")
       ELSE LET content == IF result.kind = "absent" \/ ~result.content_present
                           THEN << [has_text |-> FALSE, text |-> ""] >>
                           ELSE result.content
            IN IF Len(content) = 0 THEN Raise("IndexError")
               ELSE IF content[1].has_text THEN Ret(content[1].text)
               ELSE Ret("")

\* call_tool, given what the call-tool exchange ends in
call_tool(http, wire) ==
    IF http
    THEN LET response == send_http_mcp_request(wire)
         IN IF response.raised THEN response
            ELSE IF HasError(response.value) THEN Raise("ToolCallFailed")
            ELSE ExtractText(response.value)
    ELSE IF wire.kind = "raise" THEN Raise("McpError")
         ELSE Ret(StrContent(wire.content))

\* the request cannot even be sent: the routed transport is missing or closed
TransportUnusable ==
    IF use_http_mcp THEN http_post_raises(http_client) ELSE session # "open"


(***************************************************************************)
(* process_query.  A frame holds the locals of one invocation (messages,   *)
(* available_tools, response, final_text, the list the for loop iterates   *)
(* and its position) and a record of the calls it issued; fault is the     *)
(* call-tool exchange on which call_tool raised.  pc "rejected" is the 503 *)
(* of chat_endpoint, "failed" an exception leaving process_query.          *)
(***************************************************************************)
NoWire == [kind |-> "none"]

FreshFrame ==
    [pc |-> "idle", query |-> "",
     messages |-> <<>>, available_tools |-> <<>>,
     response |-> <<>>, iter_content |-> <<>>, idx |-> 0,
     final_text |-> <<>>, output |-> "", exc |-> "",
     llm_calls |-> <<>>, host_calls |-> <<>>,
     list_wire |-> "none", fault |-> NoWire]

Terminal == {"done", "failed", "rejected"}

\* a failed tool call that is sent again instead of ending the turn
Fail_Retry(f, e) ==
    IF f.pc = "await_call_tool"
    THEN [f EXCEPT !.host_calls = Append(@, f.host_calls[Len(f.host_calls)])]
    ELSE [f EXCEPT !.pc = "failed", !.exc = e]

\* an exception leaves process_query: nothing in it catches
Fail(f, e) == [f EXCEPT !.pc = "failed", !.exc = e]

\* f"[Calling tool {tool_name} with args {tool_args}]"
Marker(tool_name, tool_args) ==
    "[Calling tool " \o tool_name \o " with args " \o tool_args \o "]"

\* the text blocks of the follow-up response are dropped
AppendTexts_Dropped(final_text, content, i) == final_text

\* for content_item in response.content: text blocks are appended
RECURSIVE AppendTexts(_, _, _)
AppendTexts(final_text, content, i) ==
    IF i > Len(content) THEN final_text
    ELSE IF content[i].type = "text"
         THEN AppendTexts(Append(final_text, content[i].text), content, i + 1)
         ELSE AppendTexts(final_text, content, i + 1)

\* content blocks the LLM has emitted so far in this turn
RECURSIVE EmittedFrom(_, _)
EmittedFrom(calls, i) ==
    IF i > Len(calls) THEN 0 ELSE Len(calls[i].content) + EmittedFrom(calls, i + 1)
Emitted(f) == EmittedFrom(f.llm_calls, 1)

\* the responses the LLM gives while two requests are served at once: the
\* answers to the two messages differ in every block
ConcResponses(query) ==
    IF query = Query
    THEN { <<>>, << TextBlock("t1") >>,
           << ToolUseBlock("toolu_1", "get_contact_details", "{'contact_id': '42'}") >> }
    ELSE { <<>>, << TextBlock("t2") >>,
           << ToolUseBlock("toolu_2", "get_contact_details", "{}") >> }

\* what anthropic.messages.create can end in: an API error or a response
LLMOutcomes(f) ==
    { [raised |-> TRUE, content |-> <<>>] }
    \cup { [raised |-> FALSE, content |-> r]
             : r \in IF DOMAIN frames = Tasks
                     THEN LLMResponses(Min(MaxBlocks, MaxTurnBlocks - Emitted(f)))
                     ELSE ConcResponses(f.query) }

\* the tool list is fetched again before every follow-up LLM call
RecordLLMCall_Refetched(f, outcome) ==
    [f EXCEPT !.host_calls = IF Len(f.llm_calls) = 0 THEN @
                             ELSE Append(@, [method |-> "tools/list",
                                             name |-> "", arguments |-> ""]),
              !.llm_calls = Append(@, [messages |-> f.messages,
                                       tools |-> f.available_tools,
                                       raised |-> outcome.raised,
                                       content |-> outcome.content])]

\* one LLM call with the current history and tool list
RecordLLMCall(f, outcome) ==
    [f EXCEPT !.llm_calls = Append(@, [messages |-> f.messages,
                                       tools |-> f.available_tools,
                                       raised |-> outcome.raised,
                                       content |-> outcome.content])]

ToolCallRequest(content) ==
    [method |-> "tools/call", name |-> content.name, arguments |-> content.input]

\* the body of "for content in response.content" from position i up to the
\* next suspension (the await of call_tool) or the return
RECURSIVE RunLoop(_, _, _)
RunLoop(f, i, unusable) ==
    IF i > Len(f.iter_content)
    THEN [f EXCEPT !.pc = "done", !.idx = i, !.output = Join("\n", f.final_text)]
    ELSE LET content == f.iter_content[i]
         IN IF content.type = "text"
            THEN RunLoop([f EXCEPT !.final_text = Append(@, content.text)], i + 1, unusable)
            ELSE IF content.type = "tool_use"
            THEN IF unusable
                 THEN Fail([f EXCEPT !.idx = i], "TransportUnusable")
                 ELSE [f EXCEPT !.pc = "await_call_tool", !.idx = i,
                                !.host_calls = Append(@, ToolCallRequest(content))]
            ELSE RunLoop(f, i + 1, unusable)

\* the history is started over with the tool exchange
AppendExchange_Restarted(messages, content, result) ==
    << Message("assistant", << content >>),
       Message("user", << ToolResultItem(content.id, result) >>) >>

\* one history list kept on the bridge and shared by the turns in flight
AppendExchange_Shared(messages, content, result) ==
    LET others == { t \in DOMAIN frames : frames[t].messages # <<>>
                                            /\ frames[t].messages # messages }
        shared == IF others = {} THEN messages
                  ELSE frames[CHOOSE t \in others : TRUE].messages
    IN shared \o << Message("assistant", << content >>),
                    Message("user", << ToolResultItem(content.id, result) >>) >>

\* messages.append(assistant tool use); messages.append(user tool result)
AppendExchange(messages, content, result) ==
    messages \o << Message("assistant", << content >>),
                   Message("user", << ToolResultItem(content.id, result) >>) >>

\* process_query without its "if not self.server_connected" guard
EnterProcessQuery_Unguarded(f) ==
    LET f1 == [f EXCEPT !.messages = << Message("user", << TextBlock(f.query) >>) >>]
    IN IF TransportUnusable THEN Fail(f1, "TransportUnusable")
       ELSE [f1 EXCEPT !.pc = "await_tools",
                       !.host_calls = Append(@, [method |-> "tools/list",
                                                 name |-> "", arguments |-> ""])]

\* entry of process_query up to the await of get_available_tools
EnterProcessQuery(f) ==
    IF ~server_connected THEN Fail(f, "NotConnected")
    ELSE LET f1 == [f EXCEPT !.messages =
                        << Message("user", << TextBlock(f.query) >>) >>]
         IN IF TransportUnusable THEN Fail(f1, "TransportUnusable")
            ELSE [f1 EXCEPT !.pc = "await_tools",
                            !.host_calls = Append(@, [method |-> "tools/list",
                                                      name |-> "", arguments |-> ""])]

\* POST /chat
chat_endpoint(t) ==
    /\ frames[t].pc = "idle"
    /\ frames' = [frames EXCEPT ![t] =
            IF ~server_connected THEN [FreshFrame EXCEPT !.pc = "rejected"]
            ELSE EnterProcessQuery([FreshFrame EXCEPT !.query = QueryOf(t)])]
    /\ UNCHANGED <<use_http_mcp, server_connected, session, exit_stack, http_client, lastOp, host>>

\* process_query called directly on the bridge
process_query(t) ==
    /\ frames[t].pc = "idle"
    /\ frames' = [frames EXCEPT ![t] =
            EnterProcessQuery([FreshFrame EXCEPT !.query = QueryOf(t)])]
    /\ UNCHANGED <<use_http_mcp, server_connected, session, exit_stack, http_client, lastOp, host>>

ListWireClass(http, wire) ==
    IF http /\ wire.kind = "json"
    THEN (IF HasError(wire.body) THEN "error_field" ELSE "json")
    ELSE wire.kind

\* get_available_tools returns: first LLM call, then the for loop
process_query_tools(t) ==
    /\ frames[t].pc = "await_tools"
    /\ \E wire \in ListWires(use_http_mcp) :
         LET f == [frames[t] EXCEPT !.list_wire = ListWireClass(use_http_mcp, wire)]
             tools == get_available_tools(use_http_mcp, wire)
         IN IF tools.raised
            THEN frames' = [frames EXCEPT ![t] = Fail(f, tools.exc)]
            ELSE LET f1 == [f EXCEPT !.available_tools = tools.value]
                 IN \E llm \in LLMOutcomes(f1) :
                      LET f2 == RecordLLMCall(f1, llm)
                      IN frames' = [frames EXCEPT ![t] =
                           IF llm.raised THEN Fail(f2, "APIError")
                           ELSE RunLoop([f2 EXCEPT !.response = llm.content,
                                                   !.iter_content = llm.content],
                                        1, TransportUnusable)]
    /\ UNCHANGED <<use_http_mcp, server_connected, session, exit_stack, http_client, lastOp, host>>

\* call_tool returns: marker, two history messages, next LLM call, its text
\* blocks, then the for loop goes on with the list it was iterating
process_query_tool_result(t) ==
    /\ frames[t].pc = "await_call_tool"
    /\ \E wire \in CallWires(use_http_mcp) :
         LET f == frames[t]
             content == f.iter_content[f.idx]
             result == call_tool(use_http_mcp, wire)
         IN IF result.raised
            THEN frames' = [frames EXCEPT ![t] =
                                [Fail(f, result.exc) EXCEPT !.fault = wire]]
            ELSE LET f1 == [f EXCEPT
                        !.final_text = Append(@, Marker(content.name, content.input)),
                        !.messages = AppendExchange(@, content, result.value)]
                 IN \E llm \in LLMOutcomes(f1) :
                      LET f2 == RecordLLMCall(f1, llm)
                      IN frames' = [frames EXCEPT ![t] =
                           IF llm.raised THEN Fail(f2, "APIError")
                           ELSE RunLoop([f2 EXCEPT !.response = llm.content,
                                                   !.final_text = AppendTexts(@, llm.content, 1)],
                                        f.idx + 1, TransportUnusable)]
    /\ UNCHANGED <<use_http_mcp, server_connected, session, exit_stack, http_client, lastOp, host>>

\* the turn is over: chat_endpoint answers (200 with the text, 500 on an
\* exception, 503 when it rejected) and the frame is gone
chat_response(t) ==
    /\ frames[t].pc \in Terminal
    /\ frames' = [frames EXCEPT ![t] = FreshFrame]
    /\ UNCHANGED <<use_http_mcp, server_connected, session, exit_stack, http_client, lastOp, host>>

(***************************************************************************)
(* The HTTP tool host (src/chargekeep_server_http.py).  The instance holds *)
(* the API key read at construction; log is the record of the exchanges it *)
(* served.                                                                 *)
(***************************************************************************)
NewHost == [api_key |-> "key", log |-> <<>>]

\* JSON-RPC error codes the handler answers with
METHOD_NOT_FOUND == -32601
INVALID_PARAMS == -32602
INTERNAL_ERROR == -32603

\* MCPRequest after validation: method, params (a dict in which name and
\* arguments may be missing; arguments may be any JSON value) and id
HostMethods == {"initialize", "tools/list", "tools/call", "resources/list"}
HostNames == {"absent", "get_contact_details", "other_tool"}
Mapping(contact_id) == [kind |-> "mapping", contact_id |-> contact_id]
HostMappings == { Mapping(c) : c \in {"absent", "", "42"} }
HostArguments ==
    { [kind |-> k, contact_id |-> "absent"] : k \in {"absent", "null", "string"} }
    \cup HostMappings
RequestIds == {1, 2}
MCPRequest(method, name, arguments, id) ==
    [method |-> method, params |-> [name |-> name, arguments |-> arguments], id |-> id]
HostRequests ==
    { MCPRequest(m, "absent", [kind |-> "absent", contact_id |-> "absent"], i)
        : m \in HostMethods \ {"tools/call"}, i \in RequestIds }
    \cup { MCPRequest("tools/call", n, a, i)
             : n \in HostNames, a \in HostArguments, i \in RequestIds }

\* MCPResponse: result and error are both always serialised, null when unset
NoError == [code |-> 0, message |-> "null"]
NoResult == [kind |-> "null", text |-> ""]
MCPResponse(result, error, id) == [result |-> result, error |-> error, id |-> id]
ErrorResponse(code, message, id) ==
    MCPResponse(NoResult, [code |-> code, message |-> message], id)

\* fetch_contact_details: the upstream answer, or mock data when the GET fails
UpstreamOutcomes == {"ok", "error"}
fetch_contact_details(api_key, contact_id, upstream) ==
    IF upstream = "ok"
    THEN "{\"id\": \"" \o contact_id \o "\", \"status\": \"live\"}"
    ELSE "{\"id\": \"" \o contact_id \o "\", \"status\": \"mock\"}"

\* the handler awaits the upstream GET only on this path
Fetches(request) ==
    /\ request.method = "tools/call"
    /\ request.params.name = "get_contact_details"
    /\ request.params.arguments.kind = "mapping"
    /\ request.params.arguments.contact_id \notin {"absent", ""}
UpstreamFor(request) == IF Fetches(request) THEN UpstreamOutcomes ELSE {"none"}

\* the body of the handler: the branch on request.method, with the except
\* clause that turns an exception into the internal-error answer
HostResponse(state, request, upstream) ==
    LET id == request.id
        tool_name == request.params.name
        tool_args == IF request.params.arguments.kind = "absent"
                     THEN Mapping("absent") ELSE request.params.arguments
    IN IF request.method = "initialize"
       THEN MCPResponse([kind |-> "initialize", text |-> ""], NoError, id)
       ELSE IF request.method = "tools/list"
       THEN MCPResponse([kind |-> "tools", text |-> ""], NoError, id)
       ELSE IF request.method = "tools/call"
       THEN IF tool_name = "get_contact_details"
            THEN IF tool_args.kind # "mapping"
                 THEN ErrorResponse(INTERNAL_ERROR, "Internal error", id)
                 ELSE IF tool_args.contact_id \in {"absent", ""}
                 THEN ErrorResponse(INVALID_PARAMS,
                                    "Missing required parameter: contact_id", id)
                 ELSE MCPResponse(
                          [kind |-> "content",
                           text |-> fetch_contact_details(state, tool_args.contact_id,
                                                          upstream)],
                          NoError, id)
            ELSE ErrorResponse(METHOD_NOT_FOUND, "Unknown tool", id)
       ELSE ErrorResponse(METHOD_NOT_FOUND, "Unknown method", id)

\* a handler that forgets the API key once it has fetched a contact
mcp_endpoint_KeyConsumed(state, request, upstream) ==
    [state |-> IF Fetches(request) THEN "none" ELSE state,
     response |-> HostResponse(state, request, upstream)]

\* POST /mcp: the handler, given the instance state, the request and what
\* the upstream GET ends in; it gives the response and leaves the instance
\* as it was
mcp_endpoint(state, request, upstream) ==
    [state |-> state, response |-> HostResponse(state, request, upstream)]

\* the JSON body the bridge reads from a response of the host
HostWire(response) ==
    [kind |-> "json",
     body |-> [error |-> IF response.error = NoError THEN "null" ELSE "obj",
               result |-> IF response.result.kind = "content"
                          THEN [kind |-> "dict", content_present |-> TRUE,
                                content |-> << [has_text |-> TRUE,
                                                text |-> response.result.text] >>]
                          ELSE IF response.result.kind = "null"
                          THEN [kind |-> "null", content_present |-> FALSE, content |-> <<>>]
                          ELSE [kind |-> "dict", content_present |-> FALSE, content |-> <<>>]]]

\* the request send_http_mcp_request builds for call_tool(tool_name, tool_args)
HttpToolCall(tool_name, tool_args) == MCPRequest("tools/call", tool_name, tool_args, 1)

\* any client posts a request to /mcp
mcp_request ==
    /\ Len(host.log) < MaxRequests
    /\ \E request \in HostRequests : \E upstream \in UpstreamFor(request) :
         LET out == mcp_endpoint(host.api_key, request, upstream)
         IN host' = [api_key |-> out.state,
                     log |-> Append(host.log,
                                    [via |-> "client", request |-> request,
                                     upstream |-> upstream, response |-> out.response,
                                     outcome |-> Ret("")])]
    /\ UNCHANGED <<use_http_mcp, server_connected, session, exit_stack, http_client, lastOp, frames>>

\* the bridge's call_tool over HTTP, served by this host
host_call_tool ==
    /\ Len(host.log) < MaxRequests
    /\ use_http_mcp
    /\ ~http_post_raises(http_client)
    /\ \E tool_name \in HostNames \ {"absent"} : \E tool_args \in HostMappings :
         LET request == HttpToolCall(tool_name, tool_args)
         IN \E upstream \in UpstreamFor(request) :
              LET out == mcp_endpoint(host.api_key, request, upstream)
              IN host' = [api_key |-> out.state,
                          log |-> Append(host.log,
                                         [via |-> "call_tool", request |-> request,
                                          upstream |-> upstream, response |-> out.response,
                                          outcome |-> call_tool(TRUE, HostWire(out.response))])]
    /\ UNCHANGED <<use_http_mcp, server_connected, session, exit_stack, http_client, lastOp, frames>>

(***************************************************************************)
(* Specification                                                           *)
(***************************************************************************)
\* a bridge whose flag is set at construction
Init_Connected ==
    /\ use_http_mcp \in BOOLEAN
    /\ server_connected = TRUE
    /\ session = "none"
    /\ exit_stack = <<>>
    /\ http_client = IF use_http_mcp THEN "open" ELSE "none"
    /\ lastOp = NoOp
    /\ frames = [t \in Tasks |-> FreshFrame]
    /\ host = NewHost

Init ==
    /\ use_http_mcp \in BOOLEAN
    /\ server_connected = FALSE
    /\ session = "none"
    /\ exit_stack = <<>>
    /\ http_client = IF use_http_mcp THEN "open" ELSE "none"
    /\ lastOp = NoOp
    /\ frames = [t \in Tasks |-> FreshFrame]
    /\ host = NewHost

Next ==
    \/ \E path \in ScriptPaths : connect_to_stdio_server(path)
    \/ connect_to_http_server
    \/ cleanup
    \/ \E t \in Tasks : chat_endpoint(t)
    \/ \E t \in Tasks : process_query(t)
    \/ \E t \in Tasks : process_query_tools(t)
    \/ \E t \in Tasks : process_query_tool_result(t)
    \/ \E t \in Tasks : chat_response(t)

Spec == Init /\ [][Next]_vars

\* the bridge serving two chat requests at once: chat_endpoint is an async
\* handler, so a second request is taken up while the first is suspended
InitConc ==
    /\ use_http_mcp \in BOOLEAN
    /\ server_connected = FALSE
    /\ session = "none"
    /\ exit_stack = <<>>
    /\ http_client = IF use_http_mcp THEN "open" ELSE "none"
    /\ lastOp = NoOp
    /\ frames = [t \in ConcTasks |-> FreshFrame]
    /\ host = NewHost
NextConc ==
    \/ \E path \in ScriptPaths : connect_to_stdio_server(path)
    \/ connect_to_http_server
    \/ cleanup
    \/ \E t \in ConcTasks : chat_endpoint(t)
    \/ \E t \in ConcTasks : process_query_tools(t)
    \/ \E t \in ConcTasks : process_query_tool_result(t)
    \/ \E t \in ConcTasks : chat_response(t)
SpecConc == InitConc /\ [][NextConc]_vars

\* the tool host serving requests, from the bridge built for HTTP and from
\* other clients
InitHost == Init /\ use_http_mcp
NextHost == mcp_request \/ host_call_tool
SpecHost == InitHost /\ [][NextHost]_vars


(***************************************************************************)
(* Properties of the connection lifecycle                                  *)
(***************************************************************************)

\* C8: connect_to_stdio_server runs "python" for a path ending in .py and
\* "node" for one ending in .js, and spawns a subprocess only for such a
\* path; for every other path it spawns nothing, enters no context, returns
\* false and leaves server_connected false.
C8_StdioInterpreter ==
    [][ lastOp'.op = "connect_stdio" =>
          LET path == lastOp'.path
              py == EndsWith(path, DotPy)
              js == EndsWith(path, DotJs)
          IN /\ py => lastOp'.command = "python"
             /\ js => lastOp'.command = "node"
             /\ lastOp'.spawned => (py \/ js) /\ lastOp'.command \in {"python", "node"}
             /\ ~(py \/ js) =>
                   /\ ~lastOp'.spawned
                   /\ lastOp'.command = "none"
                   /\ exit_stack' = exit_stack
                   /\ session' = session
                   /\ ~lastOp'.ret
                   /\ ~server_connected' ]_vars

\* a .js script whose name also contains .py was started with node
C8_Witness ==
    /\ lastOp.op = "connect_stdio"
    /\ lastOp.path = <<"s", ".", "p", "y", ".", "j", "s">>
    /\ lastOp.command = "node"
    /\ lastOp.spawned
    /\ exit_stack # <<>>

\* C9: neither connect call raises to its caller; each returns true exactly
\* when it leaves server_connected true, and it returns true only after all
\* its steps succeeded: for stdio a valid extension and the four awaited
\* steps up to list_tools, for http one initialize exchange that was
\* answered without an error field.
C9_ConnectReturnsFlag ==
    lastOp.op \in {"connect_stdio", "connect_http"} =>
        /\ ~lastOp.raised
        /\ lastOp.ret = server_connected
        /\ lastOp.ret /\ lastOp.op = "connect_stdio" =>
              /\ EndsWith(lastOp.path, DotPy) \/ EndsWith(lastOp.path, DotJs)
              /\ lastOp.steps = 4
              /\ lastOp.spawned
        /\ lastOp.ret /\ lastOp.op = "connect_http" =>
              /\ lastOp.steps = 1
              /\ lastOp.wire = "ok"
        /\ ~lastOp.ret /\ lastOp.op = "connect_stdio" =>
              \/ ~(EndsWith(lastOp.path, DotPy) \/ EndsWith(lastOp.path, DotJs))
              \/ lastOp.steps < 4
        /\ ~lastOp.ret /\ lastOp.op = "connect_http" => lastOp.wire # "ok"

\* a stdio connect that went through all its steps and returned true
C9_Witness ==
    /\ lastOp.op = "connect_stdio"
    /\ lastOp.steps = 4
    /\ lastOp.ret
    /\ server_connected

\* an initialize exchange answered with an error field: false, disconnected
C9_WitnessHttpError ==
    /\ lastOp.op = "connect_http"
    /\ lastOp.wire = "error_field"
    /\ ~lastOp.ret
    /\ ~server_connected

\* C10: cleanup never raises and leaves server_connected false with nothing
\* open, whatever the bridge went through before; a cleanup that follows a
\* cleanup changes nothing.
C10_CleanupSafe ==
    [][ lastOp'.op = "cleanup" =>
          /\ ~lastOp'.raised
          /\ ~server_connected'
          /\ exit_stack' = <<>>
          /\ session' # "open"
          /\ http_client' # "open"
          /\ lastOp.op = "cleanup" => bridge' = bridge ]_vars

\* cleanup was called twice in a row
C10_Witness ==
    /\ lastOp.op = "cleanup"
    /\ lastOp.repeated
    /\ ~server_connected

\* cleanup of a connected bridge
C10_WitnessConnected ==
    /\ lastOp.op = "cleanup"
    /\ lastOp.prev_connected
    /\ ~server_connected


(***************************************************************************)
(* Properties of process_query                                             *)
(***************************************************************************)
IsToolUse(block) == block.type = "tool_use"
IsText(block) == block.type = "text"

HasToolUse(content) == \E k \in 1..Len(content) : IsToolUse(content[k])

\* every assistant message with a tool use is directly followed by one user
\* message holding exactly the result for that tool use
HistoryPaired(msgs) ==
    \A i \in 1..Len(msgs) :
        (msgs[i].role = "assistant" /\ HasToolUse(msgs[i].content)) =>
            /\ Len(msgs[i].content) = 1
            /\ i < Len(msgs)
            /\ msgs[i + 1].role = "user"
            /\ Len(msgs[i + 1].content) = 1
            /\ msgs[i + 1].content[1].type = "tool_result"
            /\ msgs[i + 1].content[1].tool_use_id = msgs[i].content[1].id

\* C1: in every history handed to an LLM call, each assistant message that
\* carries a tool use is immediately followed by a user message carrying the
\* tool result with the same tool_use_id.
C1_ToolUseAnswered ==
    \A t \in Tasks :
        \A c \in 1..Len(frames[t].llm_calls) :
            HistoryPaired(frames[t].llm_calls[c].messages)

\* an LLM call whose history holds two tool uses, each with its own result
C1_Witness ==
    \E t \in Tasks :
        \E c \in 1..Len(frames[t].llm_calls) :
            LET msgs == frames[t].llm_calls[c].messages
            IN /\ Len(msgs) = 5
               /\ msgs[2].content[1].id = "toolu_1"
               /\ msgs[3].content[1].tool_use_id = "toolu_1"
               /\ msgs[4].content[1].id = "toolu_2"
               /\ msgs[5].content[1].tool_use_id = "toolu_2"

\* the texts of the text blocks of one response, in order
TextsOf(content) ==
    LET blocks == SelectSeq(content, IsText)
    IN [i \in 1..Len(blocks) |-> blocks[i].text]

RECURSIVE AllTexts(_, _)
AllTexts(calls, c) ==
    IF c > Len(calls) THEN <<>>
    ELSE TextsOf(calls[c].content) \o AllTexts(calls, c + 1)

RECURSIVE ExpectedParts(_, _, _, _)
ExpectedParts(first, i, calls, c) ==
    IF i > Len(first) THEN <<>>
    ELSE IF IsText(first[i])
         THEN << first[i].text >> \o ExpectedParts(first, i + 1, calls, c)
    ELSE IF IsToolUse(first[i])
         THEN << "[Calling tool " \o first[i].name \o " with args " \o first[i].input \o "]" >>
              \o TextsOf(calls[c].content)
              \o ExpectedParts(first, i + 1, calls, c + 1)
    ELSE ExpectedParts(first, i + 1, calls, c)

RECURSIVE ToolUseCount(_, _)
ToolUseCount(calls, c) ==
    IF c > Len(calls) THEN 0
    ELSE Len(SelectSeq(calls[c].content, IsToolUse)) + ToolUseCount(calls, c + 1)

IsToolCall(request) == request.method = "tools/call"

\* C3 as stated: a turn returns only when the latest LLM response has no
\* tool-use block, and every tool-use block of every response of the turn
\* was dispatched through call_tool.
C3_ReturnsOnlyWithoutToolUse ==
    \A t \in Tasks :
        frames[t].pc = "done" =>
            /\ ~HasToolUse(frames[t].llm_calls[Len(frames[t].llm_calls)].content)
            /\ Len(SelectSeq(frames[t].host_calls, IsToolCall))
                  = ToolUseCount(frames[t].llm_calls, 1)

\* C4: a request that arrives while server_connected is false ends at once,
\* as a failure of process_query or as the rejection of chat_endpoint, with
\* no LLM call and no request to the tool host; the rejection of
\* chat_endpoint happens without process_query having run.
C4_DisconnectedIssuesNothing ==
    [][ \A t \in Tasks :
          (frames[t].pc = "idle" /\ frames'[t].pc # "idle" /\ ~server_connected) =>
              /\ frames'[t].pc \in {"failed", "rejected"}
              /\ frames'[t].llm_calls = <<>>
              /\ frames'[t].host_calls = <<>>
              /\ frames'[t].pc = "failed" => frames'[t].exc = "NotConnected"
              /\ frames'[t].pc = "rejected" =>
                    frames'[t].messages = <<>> /\ frames'[t].exc = "" ]_vars

\* process_query failed on its guard although the HTTP client could send
C4_Witness ==
    \E t \in Tasks :
        /\ frames[t].pc = "failed"
        /\ frames[t].exc = "NotConnected"
        /\ ~server_connected
        /\ use_http_mcp
        /\ http_client = "open"

\* chat_endpoint answered 503
C4_WitnessRejected ==
    \E t \in Tasks : frames[t].pc = "rejected" /\ ~server_connected

\* the call-tool exchanges that end in a failure: no response (timeout,
\* connection failure), non-success status, failed session call, error field
CallFails(wire) ==
    \/ wire.kind \in {"no_response", "bad_status", "raise"}
    \/ wire.kind = "json" /\ wire.body.error = "obj"

\* C5: call_tool raises on every failed call-tool exchange, and when it
\* raises the turn fails there: the request is not sent again, the history
\* gets no message, no LLM call follows, and a failed turn issues nothing
\* more.
C5_ToolFailureAbortsTurn ==
    [][ \A t \in Tasks :
          /\ frames[t].pc = "await_call_tool" =>
                /\ \A wire \in CallWires(use_http_mcp) :
                      CallFails(wire) => call_tool(use_http_mcp, wire).raised
                /\ frames'[t].fault.kind # "none" =>
                      /\ frames'[t].pc = "failed"
                      /\ frames'[t].messages = frames[t].messages
                      /\ frames'[t].llm_calls = frames[t].llm_calls
                      /\ frames'[t].host_calls = frames[t].host_calls
          /\ frames[t].pc = "failed" => frames'[t] \in {frames[t], FreshFrame} ]_vars

\* a tool call timed out: one list request, one call request, one LLM call,
\* and the history still holds the user message only
C5_Witness ==
    \E t \in Tasks :
        /\ frames[t].pc = "failed"
        /\ frames[t].fault.kind = "no_response"
        /\ Len(frames[t].host_calls) = 2
        /\ Len(frames[t].llm_calls) = 1
        /\ Len(frames[t].messages) = 1

\* the turn failed inside get_available_tools
ListFailed(f) == f.pc = "failed" /\ f.list_wire # "none" /\ f.llm_calls = <<>>

\* C6 as stated: whether the list-tools exchange ends in a transport-level
\* error or in a response with an error field, get_available_tools returns
\* the empty sequence and nothing propagates.
C6_ListToolsNeverPropagates ==
    \A t \in Tasks :
        frames[t].list_wire \in {"no_response", "bad_status", "raise", "error_field"} =>
            /\ ~ListFailed(frames[t])
            /\ frames[t].available_tools = <<>>

\* C6 (amended): get_available_tools returns the empty sequence when the
\* HTTP list-tools response carries an error field; a transport-level error
\* (failed request, non-success HTTP status, failed session call) is not
\* swallowed: it propagates and fails the turn before any LLM call, for both
\* transport variants.
C6_OnlyErrorFieldSwallowed ==
    \A t \in Tasks :
        /\ frames[t].list_wire = "error_field" =>
              /\ ~ListFailed(frames[t])
              /\ frames[t].available_tools = <<>>
              /\ Len(frames[t].llm_calls) >= 1
              /\ frames[t].llm_calls[1].tools = <<>>
        /\ frames[t].list_wire \in {"no_response", "bad_status", "raise"} =>
              /\ ListFailed(frames[t])
              /\ frames[t].exc \in {"RequestError", "HTTPStatusError", "McpError"}

\* an error field answered tools/list and the LLM was called with no tools
C6_Witness ==
    \E t \in Tasks :
        /\ frames[t].list_wire = "error_field"
        /\ Len(frames[t].llm_calls) >= 1
        /\ frames[t].llm_calls[1].tools = <<>>

\* C7 as stated: call_tool fails on no tool-call response without an error
\* field, so a JSON response on which it raised carries an error field.
C7_NoErrorFieldNeverFails ==
    \A t \in Tasks :
        (use_http_mcp /\ frames[t].fault.kind = "json") =>
            frames[t].fault.body.error = "obj"

(***************************************************************************)
(* Order of the calls within a turn                                        *)
(***************************************************************************)
ToolCalls(f) == SelectSeq(f.host_calls, IsToolCall)

\* C15 (as claimed): within a turn every tool-use block of an LLM response
\* leads to exactly one call_tool invocation, the invocations follow the
\* order of the blocks, and an invocation starts only after the result of
\* the previous one has been appended to the history.
C15_EachToolUseCalledInOrder ==
    \A t \in Tasks :
        LET f == frames[t]
            calls == ToolCalls(f)
            first == IF Len(f.llm_calls) = 0 THEN <<>>
                     ELSE SelectSeq(f.llm_calls[1].content, IsToolUse)
        IN /\ \A k \in 1..Min(Len(calls), Len(first)) :
                 calls[k] = ToolCallRequest(first[k])
           /\ f.pc = "await_call_tool" => Len(f.messages) = 1 + 2 * (Len(calls) - 1)
           /\ f.pc = "done" => Len(calls) = ToolUseCount(f.llm_calls, 1)

(***************************************************************************)
(* History and tool list over the LLM calls of a turn                      *)
(***************************************************************************)
IsPrefix(a, b) == Len(a) <= Len(b) /\ \A k \in 1..Len(a) : a[k] = b[k]
IsStrictPrefix(a, b) == Len(a) < Len(b) /\ IsPrefix(a, b)

\* C16: the history of a turn is append-only: the first LLM call gets the
\* single user message with the inbound text, every later LLM call gets a
\* history of which the history of the call before it is a strict prefix,
\* and the history the frame holds extends the one last passed.
C16_HistoryAppendOnly ==
    \A t \in Tasks :
        LET f == frames[t]
            calls == f.llm_calls
        IN /\ Len(calls) >= 1 =>
                /\ calls[1].messages = << Message("user", << TextBlock(Query) >>) >>
                /\ IsPrefix(calls[Len(calls)].messages, f.messages)
           /\ \A c \in 2..Len(calls) :
                IsStrictPrefix(calls[c - 1].messages, calls[c].messages)

\* a turn with three LLM calls, two tool results between them
C16_Witness ==
    \E t \in Tasks :
        /\ Len(frames[t].llm_calls) = 3
        /\ Len(frames[t].llm_calls[3].messages) = 5
        /\ frames[t].pc = "done"

IsListTools(request) == request.method = "tools/list"

\* C17: a turn sends exactly one list-tools request to the tool host, as
\* its first request and before its first LLM call, and every LLM call of
\* the turn is passed the tool descriptor list obtained from it.
C17_ToolsFetchedOnce ==
    \A t \in Tasks :
        LET f == frames[t]
        IN /\ f.pc = "await_tools" => f.llm_calls = <<>>
           /\ f.llm_calls # <<>> => f.host_calls # <<>>
           /\ f.host_calls # <<>> =>
                /\ IsListTools(f.host_calls[1])
                /\ Len(SelectSeq(f.host_calls, IsListTools)) = 1
           /\ \A c \in 1..Len(f.llm_calls) : f.llm_calls[c].tools = f.available_tools

\* a turn with two tool round-trips, hence three LLM calls, and a tool list
\* that is not empty
C17_Witness ==
    \E t \in Tasks :
        /\ Len(frames[t].llm_calls) = 3
        /\ Len(ToolCalls(frames[t])) = 2
        /\ frames[t].available_tools # <<>>

(***************************************************************************)
(* Transports held open, requests served at once                           *)
(***************************************************************************)
\* contexts of one kind that exit_stack holds entered (not yet closed)
Entered(kind) == Cardinality({ i \in 1..Len(exit_stack) : exit_stack[i] = kind })

\* C12 (as claimed): after any sequence of connect and shutdown calls at
\* most one subprocess and at most one session are open on the bridge.
C12_AtMostOneTransport ==
    /\ Entered("stdio_client") <= 1
    /\ Entered("ClientSession") <= 1

Suspended(t) == frames[t].pc \in {"await_tools", "await_call_tool"}

\* C13 (as claimed): at most one process_query call is outstanding on the
\* bridge at any time.
C13_SingleOutstanding ==
    Cardinality({ t \in DOMAIN frames : Suspended(t) }) <= 1

(***************************************************************************)
(* The two transports behind call_tool                                     *)
(***************************************************************************)
\* the successful tool-host result whose content is one text item, as each
\* transport delivers it
TextResultWire(http, text) ==
    IF http
    THEN [kind |-> "json",
          body |-> [error |-> "null",
                    result |-> [kind |-> "dict", content_present |-> TRUE,
                                content |-> << [has_text |-> TRUE, text |-> text] >>]]]
    ELSE [kind |-> "ok", content |-> << text >>]

\* C18 (as claimed): when a tool call of the bridge ends in the result
\* [text T], call_tool returns the string T on either transport.
C18_TransportsInterchangeable ==
    \A t \in Tasks :
        frames[t].pc = "await_call_tool" =>
            /\ TextResultWire(use_http_mcp, ResultText) \in CallWires(use_http_mcp)
            /\ call_tool(use_http_mcp, TextResultWire(use_http_mcp, ResultText))
                 = Ret(ResultText)

(***************************************************************************)
(* The connected flag                                                      *)
(***************************************************************************)
IssuesLLMCall(t) == Len(frames'[t].llm_calls) > Len(frames[t].llm_calls)
SendsHostRequest(t) == Len(frames'[t].host_calls) > Len(frames[t].host_calls)

\* C19 (as claimed): no LLM call and no tool-host request is issued at a
\* moment when server_connected is false, also when cleanup runs while a
\* process_query is suspended.
C19_NoCallWhileDisconnected ==
    [][ \A t \in Tasks :
          (IssuesLLMCall(t) \/ SendsHostRequest(t)) => server_connected ]_vars

\* C19 (amended): a turn starts only when server_connected is true at its
\* entry, and no tool-host request is sent while the flag is false; LLM
\* calls are issued only by a turn that passed that entry check and is
\* resuming from a tool-host call, whatever the flag is by then.
C19_CheckedAtEntryOnly ==
    [][ \A t \in Tasks :
          /\ (frames[t].pc = "idle" /\ frames'[t].pc = "await_tools") => server_connected
          /\ frames'[t].pc = "await_tools" => frames[t].pc \in {"idle", "await_tools"}
          /\ SendsHostRequest(t) => server_connected
          /\ IssuesLLMCall(t) => Suspended(t) ]_vars

\* cleanup ran while a turn was suspended; the turn then issued an LLM call
\* and could not send the tool call that the response asked for
C19_Witness ==
    \E t \in Tasks :
        /\ lastOp.op = "cleanup" /\ ~server_connected
        /\ frames[t].pc = "failed" /\ frames[t].exc = "TransportUnusable"
        /\ Len(frames[t].llm_calls) >= 1
        /\ HasToolUse(frames[t].llm_calls[Len(frames[t].llm_calls)].content)

\* C20: server_connected is true only when the last lifecycle operation on
\* the bridge was a connect that returned true (so no cleanup ran since);
\* a bridge on which no connect was ever called is disconnected and every
\* request to it ends as a rejection, with no LLM call and no tool-host
\* request.
C20_ConnectedOnlyAfterConnect ==
    /\ server_connected =>
          /\ lastOp.op \in {"connect_stdio", "connect_http"}
          /\ lastOp.ret
    /\ lastOp.op = "none" =>
          /\ ~server_connected
          /\ \A t \in Tasks :
               /\ frames[t].pc \in {"idle", "rejected", "failed"}
               /\ frames[t].pc = "failed" => frames[t].exc = "NotConnected"
               /\ frames[t].llm_calls = <<>> /\ frames[t].host_calls = <<>>

\* the bridge built for HTTP, never connected, has rejected a chat request
C20_Witness ==
    \E t \in Tasks :
        /\ lastOp.op = "none" /\ use_http_mcp
        /\ frames[t].pc = "rejected"

\* a connect returned true and the flag is set
C20_WitnessConnected ==
    /\ server_connected
    /\ lastOp.op = "connect_http" /\ lastOp.ret

\* the transport tool traffic is routed to, and the one the last connect
\* performed its handshake on
RoutedTransport == IF use_http_mcp THEN "http" ELSE "stdio"
HandshakeTransport ==
    IF lastOp.op = "connect_http" THEN "http"
    ELSE IF lastOp.op = "connect_stdio" THEN "stdio"
    ELSE "none"

\* C21 (as claimed): whenever server_connected is true, list-tools and
\* call-tool requests are routed to the transport on which the successful
\* handshake was performed.
C21_RoutedToHandshakeTransport ==
    server_connected => HandshakeTransport = RoutedTransport

(***************************************************************************)
(* Two turns in flight                                                     *)
(***************************************************************************)
\* C22: when two process_query calls interleave, the history passed to an
\* LLM call of a turn holds the message of that turn's own request followed
\* by one tool exchange for each tool result the turn had got by then, each
\* made of a block the LLM gave this turn and its result; the turn's text
\* accumulator, and the text it returns, are built from its own responses
\* only.
C22_TurnsStaySeparate ==
    \A t \in DOMAIN frames :
        LET f == frames[t]
            calls == f.llm_calls
            own == UNION { { calls[d].content[k] : k \in 1..Len(calls[d].content) }
                             : d \in 1..Len(calls) }
        IN /\ \A c \in 1..Len(calls) :
                LET msgs == calls[c].messages
                IN /\ Len(msgs) = 1 + 2 * (c - 1)
                   /\ msgs[1] = Message("user", << TextBlock(QueryOf(t)) >>)
                   /\ \A e \in 1..(c - 1) :
                        /\ msgs[2 * e].role = "assistant"
                        /\ Len(msgs[2 * e].content) = 1
                        /\ \E d \in 1..(c - 1) : \E k \in 1..Len(calls[d].content) :
                             msgs[2 * e].content[1] = calls[d].content[k]
                        /\ msgs[2 * e + 1].role = "user"
                        /\ msgs[2 * e + 1].content[1].tool_use_id = msgs[2 * e].content[1].id
           /\ \A k \in 1..Len(f.final_text) :
                \E b \in own :
                    \/ IsText(b) /\ f.final_text[k] = b.text
                    \/ IsToolUse(b) /\ f.final_text[k] = Marker(b.name, b.input)
           /\ f.pc = "done" =>
                f.output = Join("\n", ExpectedParts(calls[1].content, 1, calls, 2))

\* the second request went through a tool round-trip and returned while the
\* first was suspended at its tool call
C22_Witness ==
    /\ DOMAIN frames = ConcTasks
    /\ frames[1].pc = "await_call_tool"
    /\ Len(frames[1].llm_calls) = 1
    /\ frames[2].pc = "done"
    /\ Len(frames[2].llm_calls) = 2
    /\ Len(frames[2].llm_calls[2].messages) = 3
    /\ frames[2].output = "[Calling tool get_contact_details with args {}]\nt2"

(***************************************************************************)
(* Tool host: error codes and independence of calls                        *)
(***************************************************************************)
KnownMethods == {"initialize", "tools/list", "tools/call"}

\* a tools/call request whose params are malformed: no name, or arguments
\* for get_contact_details that are not a mapping or carry no contact_id
Malformed(request) ==
    /\ request.method = "tools/call"
    /\ \/ request.params.name = "absent"
       \/ /\ request.params.name = "get_contact_details"
          /\ \/ request.params.arguments.kind \in {"null", "string"}
             \/ request.params.arguments.contact_id \in {"absent", ""}

\* C11 (as claimed): every answer carries the code of its class: -32601 for
\* a method that is not initialize, tools/list or tools/call, -32602 for
\* every tools/call with malformed params, and -32603 never for a malformed
\* request.
C11_ErrorCodeByClass ==
    \A i \in 1..Len(host.log) :
        LET request == host.log[i].request
            code == host.log[i].response.error.code
        IN /\ request.method \notin KnownMethods => code = METHOD_NOT_FOUND
           /\ Malformed(request) => code = INVALID_PARAMS
           /\ code = INTERNAL_ERROR => ~Malformed(request)

\* C14: two call_tool invocations with the same (name, arguments) are two
\* request/response cycles of their own: each sends the tools/call request
\* built from its arguments, calls that meet the same upstream answer end
\* the same way whatever was served before, and serving a request leaves
\* the instance state of the host as it was.
C14_IndependentCycles ==
    [][ /\ host'.api_key = host.api_key
        /\ \A i \in 1..Len(host'.log) :
             LET e == host'.log[i]
             IN e.via = "call_tool" =>
                  /\ e.request = HttpToolCall(e.request.params.name,
                                              e.request.params.arguments)
                  /\ e.response = HostResponse(NewHost.api_key, e.request, e.upstream)
                  /\ e.outcome = call_tool(TRUE, HostWire(e.response))
                  /\ \A j \in 1..Len(host'.log) :
                       LET d == host'.log[j]
                       IN (d.via = "call_tool" /\ d.request = e.request
                             /\ d.upstream = e.upstream)
                          => (d.response = e.response /\ d.outcome = e.outcome) ]_vars

\* two call_tool invocations with identical name and arguments were served
C14_Witness ==
    /\ Len(host.log) = 2
    /\ host.log[1].via = "call_tool" /\ host.log[2].via = "call_tool"
    /\ host.log[1].request = host.log[2].request
    /\ host.log[1].upstream = "ok" /\ host.log[2].upstream = "ok"
    /\ ~host.log[2].outcome.raised
    /\ host.log[2].outcome = host.log[1].outcome

====
